---- MODULE Spec2Model ----
(***************************************************************************)
(* zenstates.py: P-State / C6 control of a Ryzen processor through the     *)
(* per-CPU MSR device files /dev/cpu/N/msr.                                *)
(*                                                                         *)
(* One invocation of the script is a process that runs the blocks of the   *)
(* script in order: list, P-State mutation, C6 enable, C6 disable, help.   *)
(* Every register access (one open/seek/read or open/seek/write on one     *)
(* device file) is one step.  The registers are shared by all invocations. *)
(*                                                                         *)
(* Register values are Python ints.  They are modelled as two's complement *)
(* bit sets: bits is the set of positions 0..63 that are 1, neg says that  *)
(* every position above 63 is 1 (a negative int).  MSR addresses are given *)
(* relative to 0xC0010000.  Voltages are given in millivolts.              *)
(***************************************************************************)
EXTENDS Integers, Sequences, FiniteSets, TLC

\* Highest CPU index that may have a device file.
MaxCpu == 2

CpuIds == 0..MaxCpu

WordBits == 0..63

----------------------------------------------------------------------------
\* Python ints as bit sets

Zero == [neg |-> FALSE, bits |-> {}]

\* 2^j for the small j used on argument values
RECURSIVE Pow2(_)
Pow2(j) == IF j = 0 THEN 1 ELSE 2 * Pow2(j - 1)

\* ArgWidth: argument values n satisfy -2^ArgWidth <= n < 2^ArgWidth
ArgWidth == 12

\* bit j of the two's complement form of the int n
Bit(n, j) == IF j >= ArgWidth THEN n < 0 ELSE ((n \div Pow2(j)) % 2) = 1

\* n << base
Shl(n, base) ==
    [neg |-> n < 0, bits |-> {i \in WordBits : i >= base /\ Bit(n, i - base)}]

\* the int whose set bits are S
FromBits(S) == [neg |-> FALSE, bits |-> S]

\* val | w
BitOr(val, w) == [neg |-> val.neg \/ w.neg, bits |-> val.bits \cup w.bits]

\* val & ~m, for m >= 0
BitAndNot(val, m) == [neg |-> val.neg, bits |-> val.bits \ m.bits]

\* (val & (mask << base)) >> base, as a number; mask = 2^length - 1
RECURSIVE Extract(_, _, _)
Extract(val, base, length) ==
    IF length = 0 THEN 0
    ELSE (IF base \in val.bits THEN 1 ELSE 0) + 2 * Extract(val, base + 1, length - 1)

\* struct.pack('Q', val) accepts 0 <= val < 2^64 only
Packable(val) == ~val.neg

----------------------------------------------------------------------------
\* Register addresses (relative to 0xC0010000) and bit positions

PStateBase == 100

NumPStates == 8

pstates == [p \in 0..(NumPStates - 1) |-> PStateBase + p]

HWCR == 21

C6Pkg == 658

C6Core == 662

Msrs == {pstates[p] : p \in DOMAIN pstates} \cup {HWCR, C6Pkg, C6Core}

TscLockBit == 21

EnBit == 63

C6PkgBits == {32}

C6CoreBits == {22, 14, 6}

----------------------------------------------------------------------------
\* The P-State codec

setbits(val, base, length, new) ==
    BitOr(BitAndNot(val, FromBits(base..(base + length - 1))), Shl(new, base))

setfid(val, new) == setbits(val, 0, 8, new)

setdid(val, new) == setbits(val, 8, 6, new)

setvid(val, new) == setbits(val, 14, 8, new)

\* int(round((1.55 - vcore) / 0.00625)) for vcore = mv / 1000.  The quotient
\* is (6200 - 4 mv) / 25, never half way between two integers, so rounding is
\* to the nearest integer.
vcore_to_vid(mv) == (2 * (6200 - 4 * mv) + 25) \div 50

\* pstate2str: the decoded fields, or the exception the division raises.
\* ratio is 25 fid / (12.5 did) as a fraction, vcore is in units of 10 uV.
pstate2str(val) ==
    IF EnBit \in val.bits
    THEN LET fid == Extract(val, 0, 8)
             did == Extract(val, 8, 6)
             vid == Extract(val, 14, 8)
         IN  IF did = 0
             THEN [kind |-> "ZeroDivisionError"]
             ELSE [kind |-> "Enabled", fid |-> fid, did |-> did, vid |-> vid,
                   ratio |-> <<2 * fid, did>>, vcore |-> 155000 - 625 * vid]
    ELSE [kind |-> "Disabled"]

Raises(val) == pstate2str(val).kind = "ZeroDivisionError"

----------------------------------------------------------------------------
\* Command lines (argparse defaults: -1 for an option not given)

NoEdit ==
    [list |-> FALSE, pstate |-> -1, enable |-> FALSE, disable |-> FALSE,
     fid |-> -1, did |-> -1, vid |-> -1, vcore |-> -1000,
     c6_enable |-> FALSE, c6_disable |-> FALSE]

\* the P-State index used on the command lines that name one
PIdx == 1

FidArgs == {144, 152, 256}

DidArgs == {0, 10}

VidArgs == {48}

VcoreArgs == {1100, 2000}

\* command lines that change one thing of a P-State
OneEdit ==
    {[NoEdit EXCEPT !.pstate = PIdx, !.enable = TRUE],
     [NoEdit EXCEPT !.pstate = PIdx, !.disable = TRUE]}
    \cup {[NoEdit EXCEPT !.pstate = PIdx, !.fid = f] : f \in FidArgs}
    \cup {[NoEdit EXCEPT !.pstate = PIdx, !.did = d] : d \in DidArgs}
    \cup {[NoEdit EXCEPT !.pstate = PIdx, !.vid = v] : v \in VidArgs}
    \cup {[NoEdit EXCEPT !.pstate = PIdx, !.vcore = v] : v \in VcoreArgs}

\* a and b merged: every option given in b overrides a
Merge(a, b) ==
    [k \in DOMAIN a |-> IF b[k] # NoEdit[k] THEN b[k] ELSE a[k]]

Requests ==
    \* no P-State named: list and the C6 switches
    {[NoEdit EXCEPT !.list = l, !.c6_enable = e, !.c6_disable = d] :
        l \in BOOLEAN, e \in BOOLEAN, d \in BOOLEAN}
    \* a P-State named and nothing, one thing or two things to change
    \cup {[NoEdit EXCEPT !.pstate = PIdx]}
    \cup {Merge(a, b) : a \in OneEdit, b \in OneEdit}
    \* a P-State edit together with list or a C6 switch
    \cup {[NoEdit EXCEPT !.pstate = PIdx, !.fid = 152, !.list = l,
                         !.c6_enable = e, !.c6_disable = d] :
            l \in BOOLEAN, e \in BOOLEAN, d \in BOOLEAN}

\* the edits of lines 97-116, in the order of the script
ApplyEdits_VidLast(old, a) ==
    LET n1 == IF a.enable THEN setbits(old, 63, 1, 1) ELSE old
        n2 == IF a.disable THEN setbits(n1, 63, 1, 0) ELSE n1
        n3 == IF a.fid >= 0 THEN setfid(n2, a.fid) ELSE n2
        n4 == IF a.did >= 0 THEN setdid(n3, a.did) ELSE n3
        n5 == IF a.vcore >= 0 THEN setvid(n4, vcore_to_vid(a.vcore)) ELSE n4
        n6 == IF a.vid >= 0 THEN setvid(n5, a.vid) ELSE n5
    IN  n6

ApplyEdits(old, a) ==
    LET n1 == IF a.enable THEN setbits(old, 63, 1, 1) ELSE old
        n2 == IF a.disable THEN setbits(n1, 63, 1, 0) ELSE n1
        n3 == IF a.fid >= 0 THEN setfid(n2, a.fid) ELSE n2
        n4 == IF a.did >= 0 THEN setdid(n3, a.did) ELSE n3
        n5 == IF a.vid >= 0 THEN setvid(n4, a.vid) ELSE n4
        n6 == IF a.vcore >= 0 THEN setvid(n5, vcore_to_vid(a.vcore)) ELSE n5
    IN  n6

\* line 117
NeedsWrite_Always(old, new) == TRUE

NeedsWrite(old, new) == new # old

\* line 118
TscUnlocked(val) == TscLockBit \notin val.bits

\* lines 127, 128, 133, 134: the values written by the C6 blocks
C6Set_Low(val, S) == BitOr(val, FromBits(S \ {32}))

C6Set(val, S) == BitOr(val, FromBits(S))

C6Clear(val, S) == BitAndNot(val, FromBits(S))

----------------------------------------------------------------------------
\* State

Procs == {1, 2}

VARIABLES
    cpus,   \* the CPU indices that have a device file /dev/cpu/N/msr
    globbed,\* the list glob.glob('/dev/cpu/[0-9]*/msr') returns, as CPU indices
    regs,   \* regs[c][m]: the value of register m on CPU c
    regs0,  \* history: regs when the invocations started
    args,   \* args[p]: the command line of invocation p
    st,     \* st[p]: the position and the local variables of invocation p
    wlog    \* history: the register writes performed, in order

vars == <<cpus, globbed, regs, regs0, args, st, wlog>>

\* the locals of an invocation before it runs
Fresh ==
    [pc |-> "list",
     old |-> Zero, new |-> Zero,   \* lines 95-116
     c |-> 0, n |-> 0,             \* the loop of line 120
     rval |-> Zero,                \* the value last read
     wmsr |-> 0, wval |-> Zero,    \* writemsr's msr and val
     todo |-> <<>>,                \* device files the loop of line 14 has left
     site |-> 0,                   \* the line of the writemsr call under way
     ret |-> "list",               \* where the script goes on after writemsr
     fault |-> "none",             \* why the invocation ended early
     fsite |-> 0,                  \* the line at which it did
     got |-> FALSE,                \* history: line 95 has assigned old
     sawUnlocked |-> FALSE,        \* history: line 118 found the bit unset
     rdpos |-> 0, endpos |-> 0]    \* history: Len(wlog) at line 95 and after 123

pc(p) == st[p].pc

\* the register contents an invocation may find
PValue(en, fid, did, vid, extra) ==
    BitOr(setbits(setvid(setdid(setfid(Zero, fid), did), vid), 63, 1, en),
          FromBits(extra))

PVals ==
    {PValue(1, 144, 8, 32, {22, 30, 40}),  \* enabled, reserved bits in use
     PValue(0, 136, 8, 58, {}),            \* disabled
     PValue(1, 144, 0, 32, {})}            \* enabled with DID = 0

HwcrVals(locked) ==
    BitOr(FromBits({0, 24, 27}), FromBits(IF locked THEN {TscLockBit} ELSE {}))

C6Vals ==
    {[pkg |-> FromBits({}), core |-> FromBits({1, 6, 40})],
     [pkg |-> FromBits({32}), core |-> FromBits({6, 14, 22})],
     [pkg |-> FromBits({3, 32, 50}), core |-> FromBits({})]}

\* which CPUs start with the TSC locked
LockSets(C) == {{}, C, C \cap {0}, C \ {0}}

InitRegs(C, v0, v1, L, c6) ==
    [c \in C |->
        [m \in Msrs |->
            IF m = HWCR THEN HwcrVals(c \in L)
            ELSE IF m = C6Pkg THEN c6.pkg
            ELSE IF m = C6Core THEN c6.core
            ELSE IF c = 0 THEN v0 ELSE v1]]

\* the orders in which a directory listing may give the device files
Listings(C) ==
    {f \in [1..Cardinality(C) -> C] : \A i, j \in DOMAIN f : f[i] = f[j] => i = j}

InitHw ==
    /\ cpus \in (SUBSET CpuIds) \ {{}}
    /\ globbed \in Listings(cpus)
    /\ \E v0 \in PVals, v1 \in PVals, L \in LockSets(cpus), c6 \in C6Vals :
          /\ v1 \in {v0, PValue(1, 144, 8, 32, {22, 30, 40})}
          /\ regs = InitRegs(cpus, v0, v1, L, c6)
    /\ regs0 = regs
    /\ wlog = <<>>

\* one invocation
Init ==
    /\ InitHw
    /\ args \in [Procs -> Requests]
    /\ args[2] = NoEdit
    /\ st = [p \in Procs |-> IF p = 1 THEN Fresh ELSE [Fresh EXCEPT !.pc = "off"]]

----------------------------------------------------------------------------
\* The register transport: readmsr and writemsr

\* why an access to the device file of CPU c fails: the file does not exist,
\* or the open, read or write fails
AccessFault(c) == IF c \in cpus THEN "io" ELSE "nocpu"

\* lines 22-23 and 32-33: the OSError is not caught, the script ends
Fail_Swallowed(p, why, site) ==
    st' = [st EXCEPT ![p].pc = "c6e_pkg", ![p].fault = why, ![p].fsite = site]

Fail(p, why, site) ==
    st' = [st EXCEPT ![p].pc = "failed", ![p].fault = why, ![p].fsite = site]

\* lines 41, 96, 122: the ZeroDivisionError is not caught, the script ends
Crash(p, site) ==
    st' = [st EXCEPT ![p].pc = "crashed", ![p].fault = "zerodiv", ![p].fsite = site]

\* the effect of f.write(struct.pack('Q', val)) on /dev/cpu/c/msr at msr
Written_Cpu0(p, c, msr, val, site) ==
    /\ regs' = [regs EXCEPT ![0][msr] = val]
    /\ wlog' = Append(wlog, [p |-> p, cpu |-> 0, msr |-> msr, val |-> val,
                             site |-> site])

Written(p, c, msr, val, site) ==
    /\ regs' = [regs EXCEPT ![c][msr] = val]
    /\ wlog' = Append(wlog, [p |-> p, cpu |-> c, msr |-> msr, val |-> val,
                             site |-> site])

----------------------------------------------------------------------------
\* The script

\* lines 87-91
List(p) ==
    /\ pc(p) = "list"
    /\ UNCHANGED <<cpus, globbed, regs, regs0, args, wlog>>
    /\ IF ~args[p].list
       THEN st' = [st EXCEPT ![p].pc = "pstate"]
       ELSE \/ Fail(p, AccessFault(0), 89)
            \/ /\ 0 \in cpus
               /\ IF \E i \in DOMAIN pstates : Raises(regs[0][pstates[i]])
                  THEN Crash(p, 89)
                  ELSE st' = [st EXCEPT ![p].pc = "pstate"]

\* lines 94-117
ReadPState(p) ==
    /\ pc(p) = "pstate"
    /\ UNCHANGED <<cpus, globbed, regs, regs0, args, wlog>>
    /\ IF args[p].pstate < 0
       THEN st' = [st EXCEPT ![p].pc = "c6e_pkg"]
       ELSE \/ Fail(p, AccessFault(0), 95)
            \/ /\ 0 \in cpus
               /\ LET old == regs[0][pstates[args[p].pstate]]
                      new == ApplyEdits(old, args[p])
                  IN  IF Raises(old)
                      THEN st' = [st EXCEPT
                               ![p].old = old, ![p].new = old, ![p].got = TRUE,
                               ![p].pc = "crashed", ![p].fault = "zerodiv",
                               ![p].fsite = 96]
                      ELSE st' = [st EXCEPT
                               ![p].old = old, ![p].new = new, ![p].got = TRUE,
                               ![p].rdpos = Len(wlog), ![p].endpos = Len(wlog),
                               ![p].pc = IF NeedsWrite(old, new)
                                         THEN "lockcheck" ELSE "c6e_pkg"]

\* lines 118-120
LockCheck(p) ==
    /\ pc(p) = "lockcheck"
    /\ UNCHANGED <<cpus, globbed, regs, regs0, args, wlog>>
    /\ \/ Fail(p, AccessFault(0), 118)
       \/ /\ 0 \in cpus
          /\ IF TscUnlocked(regs[0][HWCR])
             THEN st' = [st EXCEPT ![p].sawUnlocked = TRUE, ![p].c = 0,
                                   ![p].n = Len(globbed),
                                   ![p].pc = "lockread"]
             ELSE st' = [st EXCEPT ![p].pc = "newprint"]

\* line 121: readmsr(0xC0010015, c)
LockRead(p) ==
    /\ pc(p) = "lockread"
    /\ UNCHANGED <<cpus, globbed, regs, regs0, args, wlog>>
    /\ \/ Fail(p, AccessFault(st[p].c), 121)
       \/ /\ st[p].c \in cpus
          /\ st' = [st EXCEPT ![p].rval = regs[st[p].c][HWCR],
                              ![p].pc = "lockwrite"]

\* line 121: writemsr(0xC0010015, ... | (1 << 21), c), and the loop of line 120
LockWrite(p) ==
    /\ pc(p) = "lockwrite"
    /\ UNCHANGED <<cpus, globbed, regs0, args>>
    /\ \/ /\ Fail(p, AccessFault(st[p].c), 121)
          /\ UNCHANGED <<regs, wlog>>
       \/ /\ st[p].c \in cpus
          /\ Written(p, st[p].c, HWCR,
                     BitOr(st[p].rval, FromBits({TscLockBit})), 121)
          /\ st' = [st EXCEPT ![p].c = st[p].c + 1,
                              ![p].pc = IF st[p].c + 1 < st[p].n
                                        THEN "lockread" ELSE "newprint"]

\* lines 122-123: the print, and the call writemsr(pstates[args.pstate], new)
NewPrint(p) ==
    /\ pc(p) = "newprint"
    /\ UNCHANGED <<cpus, globbed, regs, regs0, args, wlog>>
    /\ IF Raises(st[p].new)
       THEN Crash(p, 122)
       ELSE st' = [st EXCEPT ![p].wmsr = pstates[args[p].pstate],
                             ![p].wval = st[p].new, ![p].todo = globbed,
                             ![p].site = 123, ![p].ret = "c6e_pkg",
                             ![p].pc = "bcast"]

\* lines 14-17: one turn of the loop over the device files, in glob's order
Broadcast(p) ==
    /\ pc(p) = "bcast"
    /\ UNCHANGED <<cpus, globbed, regs0, args>>
    /\ LET c == Head(st[p].todo) IN
          \/ /\ Fail(p, AccessFault(c), st[p].site)
             /\ UNCHANGED <<regs, wlog>>
          \/ /\ ~Packable(st[p].wval)
             /\ Fail(p, "pack", st[p].site)
             /\ UNCHANGED <<regs, wlog>>
          \/ /\ Packable(st[p].wval)
             /\ Written(p, c, st[p].wmsr, st[p].wval, st[p].site)
             /\ st' = [st EXCEPT
                   ![p].todo = Tail(st[p].todo),
                   ![p].endpos = IF st[p].site = 123
                                 THEN Len(wlog) + 1 ELSE st[p].endpos,
                   ![p].pc = IF Len(st[p].todo) = 1 THEN st[p].ret ELSE "bcast"]

\* one line of a C6 block: writemsr(msr, readmsr(msr) | S) when on, and
\* writemsr(msr, readmsr(msr) & ~S) when not
C6Line(p, flag, msr, on, S, site, next, skip) ==
    /\ UNCHANGED <<cpus, globbed, regs, regs0, args, wlog>>
    /\ IF ~flag
       THEN st' = [st EXCEPT ![p].pc = skip]
       ELSE \/ Fail(p, AccessFault(0), site)
            \/ /\ 0 \in cpus
               /\ st' = [st EXCEPT ![p].rval = regs[0][msr], ![p].wmsr = msr,
                                   ![p].wval = IF on THEN C6Set(regs[0][msr], S)
                                                     ELSE C6Clear(regs[0][msr], S),
                                   ![p].todo = globbed, ![p].site = site,
                                   ![p].ret = next, ![p].pc = "bcast"]

\* line 127
C6EnablePkg(p) ==
    /\ pc(p) = "c6e_pkg"
    /\ C6Line(p, args[p].c6_enable, C6Pkg, TRUE, C6PkgBits, 127,
              "c6e_core", "c6d_pkg")

\* line 128
C6EnableCore(p) ==
    /\ pc(p) = "c6e_core"
    /\ C6Line(p, TRUE, C6Core, TRUE, C6CoreBits, 128, "c6d_pkg", "c6d_pkg")

\* line 133
C6DisablePkg(p) ==
    /\ pc(p) = "c6d_pkg"
    /\ C6Line(p, args[p].c6_disable, C6Pkg, FALSE, C6PkgBits, 133,
              "c6d_core", "help")

\* line 134
C6DisableCore(p) ==
    /\ pc(p) = "c6d_core"
    /\ C6Line(p, TRUE, C6Core, FALSE, C6CoreBits, 134, "help", "help")

\* lines 138-139
Help(p) ==
    /\ pc(p) = "help"
    /\ st' = [st EXCEPT ![p].pc = "done"]
    /\ UNCHANGED <<cpus, globbed, regs, regs0, args, wlog>>

Next ==
    \E p \in Procs :
        \/ List(p)
        \/ ReadPState(p)
        \/ LockCheck(p)
        \/ LockRead(p)
        \/ LockWrite(p)
        \/ NewPrint(p)
        \/ Broadcast(p)
        \/ C6EnablePkg(p)
        \/ C6EnableCore(p)
        \/ C6DisablePkg(p)
        \/ C6DisableCore(p)
        \/ Help(p)

Spec == Init /\ [][Next]_vars

\* two invocations at once, one setting the FID and one the DID of a P-State,
\* the second with or without the C6 switches
RaceCpus == 0..1

InitRace ==
    /\ cpus = RaceCpus
    /\ globbed \in Listings(cpus)
    /\ \E L \in LockSets(cpus), c6 \in C6Vals :
          regs = InitRegs(cpus, PValue(1, 144, 8, 32, {22, 30, 40}),
                          PValue(1, 144, 8, 32, {22, 30, 40}), L, c6)
    /\ regs0 = regs
    /\ wlog = <<>>
    /\ \E c6 \in BOOLEAN :
          args = [p \in Procs |->
                    IF p = 1
                    THEN [NoEdit EXCEPT !.pstate = PIdx, !.fid = 152]
                    ELSE [NoEdit EXCEPT !.pstate = PIdx, !.did = 10,
                                        !.c6_enable = c6, !.c6_disable = c6]]
    /\ st = [p \in Procs |-> Fresh]

SpecRace == InitRace /\ [][Next]_vars

----------------------------------------------------------------------------
\* What the properties speak of

PMsrs == {pstates[i] : i \in DOMAIN pstates}

\* the positions in wlog of the writes of invocation p to the registers in M
WritesOf(p, M) == {i \in DOMAIN wlog : wlog[i].p = p /\ wlog[i].msr \in M}

\* the writes of p that set bit 21 of the TSC-lock control register
LockWritesOf(p) == {i \in WritesOf(p, {HWCR}) : 21 \in wlog[i].val.bits}

Fid(val) == Extract(val, 0, 8)

Did(val) == Extract(val, 8, 6)

Vid(val) == Extract(val, 14, 8)

\* p has left the TSC-lock step of its mutation, or has ended in it
PastLock(p) == st[p].got /\ pc(p) \notin {"lockcheck", "lockread", "lockwrite"}

----------------------------------------------------------------------------
\* C1: when the new value differs and CPU 0 shows the TSC unlocked, bit 21 of
\* the TSC-lock register is written on every discovered CPU, whatever the
\* indices of the CPUs are, before the first write of the P-State register.
\* (An invocation cut short by a failing access to an existing device file is
\* left aside: that is C9's case.)
C1_LockOnEveryCpu ==
    \A p \in Procs :
        (st[p].sawUnlocked /\ PastLock(p) /\ st[p].fault # "io") =>
            \A c \in cpus :
                \E i \in LockWritesOf(p) :
                    /\ wlog[i].cpu = c
                    /\ \A j \in WritesOf(p, PMsrs) : i < j

\* the ordering half of C1 alone: a P-State write of an invocation that saw
\* the TSC unlocked comes after its lock writes on every discovered CPU
C1_OrderOnly ==
    \A p \in Procs :
        (st[p].sawUnlocked /\ WritesOf(p, PMsrs) # {}) =>
            \A c \in cpus :
                \E i \in LockWritesOf(p) :
                    /\ wlog[i].cpu = c
                    /\ \A j \in WritesOf(p, PMsrs) : i < j

\* C2: a mutation whose edits give back the value read writes neither the
\* TSC-lock register nor a P-State register on any CPU.
C2_NoWriteWhenUnchanged ==
    \A p \in Procs :
        (st[p].got /\ st[p].new = st[p].old) => WritesOf(p, PMsrs \cup {HWCR}) = {}

C2_Witness ==
    \E p \in Procs :
        /\ pc(p) = "done" /\ st[p].got /\ st[p].new = st[p].old
        /\ args[p].fid >= 0
        /\ 21 \notin regs[0][HWCR].bits
        /\ Cardinality(cpus) > 1

\* C3: whenever the P-State register of a CPU is written with a value other
\* than the one it held, bit 21 of that CPU's TSC-lock register is set.
C3_LockedWhenChanged ==
    [][\A c \in cpus : \A m \in PMsrs :
          regs'[c][m] # regs[c][m] => 21 \in regs[c][HWCR].bits]_vars

\* C4: a vcore whose VID is outside 0..255 makes the mutation fail before any
\* write: no write of the TSC-lock register, none of a P-State register.
C4_NoWriteOnInvalidVoltage ==
    \A p \in Procs :
        (/\ args[p].pstate >= 0
         /\ args[p].vcore >= 0
         /\ vcore_to_vid(args[p].vcore) \notin 0..255)
        => WritesOf(p, PMsrs \cup {HWCR}) = {}

\* C5: a P-State value that is enabled with DID = 0, read or produced by the
\* edits, does not end the invocation.
C5_NoAbortOnDidZero ==
    \A p \in Procs : ~(pc(p) = "crashed" /\ st[p].fsite \in {96, 122})

\* C6: a mutation that asks for an FID change only leaves every bit outside
\* bits 0-7 as it was read.
OnlyFid(a) ==
    /\ a.fid >= 0 /\ a.did < 0 /\ a.vid < 0 /\ a.vcore < 0
    /\ ~a.enable /\ ~a.disable

C6_FidOnlyIsolated ==
    \A p \in Procs :
        (st[p].got /\ OnlyFid(args[p])) =>
            /\ st[p].new.bits \ (0..7) = st[p].old.bits \ (0..7)
            /\ st[p].new.neg = st[p].old.neg

\* C7: with both vid = X and vcore = Y on the command line, the VID field of
\* every value written to the P-State register is vcore_to_vid(Y).
C7_VcoreWins ==
    \A p \in Procs :
        (args[p].vid >= 0 /\ args[p].vcore >= 0) =>
            \A i \in WritesOf(p, PMsrs) :
                Vid(wlog[i].val) = vcore_to_vid(args[p].vcore)

C7_Witness ==
    \E p \in Procs :
        /\ args[p].vid >= 0 /\ args[p].vcore >= 0
        /\ args[p].vid # vcore_to_vid(args[p].vcore)
        /\ pc(p) = "done"
        /\ \A c \in cpus : Vid(regs[c][pstates[args[p].pstate]]) = 72
        /\ Cardinality(cpus) > 1

\* C8: C6 enable writes the package value read from CPU 0 with bit 32 set and
\* the core value read from CPU 0 with bits 6, 14 and 22 set, C6 disable
\* writes them with these four bits cleared, nothing else changed, and a
\* block that has run has written every discovered CPU.
C6PkgRead == regs0[0][C6Pkg]

C6CoreRead == regs0[0][C6Core]

C8_C6Values ==
    /\ \A i \in DOMAIN wlog :
          LET e == wlog[i] IN
          /\ e.site = 127 => e.msr = C6Pkg /\ ~e.val.neg
                             /\ e.val.bits = C6PkgRead.bits \cup {32}
          /\ e.site = 128 => e.msr = C6Core /\ ~e.val.neg
                             /\ e.val.bits = C6CoreRead.bits \cup {6, 14, 22}
          /\ e.site = 133 => e.msr = C6Pkg /\ ~e.val.neg
                             /\ e.val.bits = C6PkgRead.bits \ {32}
          /\ e.site = 134 => e.msr = C6Core /\ ~e.val.neg
                             /\ e.val.bits = C6CoreRead.bits \ {6, 14, 22}
    /\ \A p \in Procs :
          pc(p) = "done" =>
            /\ args[p].c6_enable =>
                 \A c \in cpus : \E i, j \in WritesOf(p, {C6Pkg, C6Core}) :
                    /\ wlog[i].cpu = c /\ wlog[i].site = 127
                    /\ wlog[j].cpu = c /\ wlog[j].site = 128
            /\ args[p].c6_disable =>
                 \A c \in cpus :
                    /\ regs[c][C6Pkg].bits = C6PkgRead.bits \ {32}
                    /\ regs[c][C6Core].bits = C6CoreRead.bits \ {6, 14, 22}
            /\ (args[p].c6_enable /\ ~args[p].c6_disable) =>
                 \A c \in cpus :
                    /\ regs[c][C6Pkg].bits = C6PkgRead.bits \cup {32}
                    /\ regs[c][C6Core].bits = C6CoreRead.bits \cup {6, 14, 22}

C8_Witness ==
    \E p \in Procs :
        /\ pc(p) = "done" /\ args[p].c6_enable /\ ~args[p].c6_disable
        /\ C6PkgRead.bits = {}
        /\ Cardinality(cpus) > 1
        /\ \A c \in cpus : regs[c][C6Pkg].bits = {32}
        /\ \A c \in cpus : regs[c][C6Core].bits = {1, 6, 14, 22, 40}

\* C9: once a register read or write of an invocation has failed, the
\* invocation issues no further write, the failing step itself changes no
\* register (nothing is rolled back), and a failure in the TSC-lock step is
\* never followed by a P-State write.
RegFaults == {"io", "nocpu", "pack"}

C9_AbortOnFailure ==
    [][\A p \in Procs :
          /\ st[p].fault \in RegFaults =>
                \A i \in DOMAIN wlog' : i > Len(wlog) => wlog'[i].p # p
          /\ (st[p].fault = "none" /\ st'[p].fault \in RegFaults) =>
                regs' = regs /\ wlog' = wlog
          /\ (st'[p].fault \in RegFaults /\ st'[p].fsite \in {118, 121}) =>
                \A i \in DOMAIN wlog' :
                    ~(wlog'[i].p = p /\ wlog'[i].msr \in PMsrs)]_vars

C9_Witness ==
    \E p \in Procs :
        /\ pc(p) = "failed" /\ st[p].fault = "io" /\ st[p].fsite = 123
        /\ \E c, d \in cpus :
              /\ regs[c][pstates[args[p].pstate]] = st[p].new
              /\ regs[d][pstates[args[p].pstate]] = regs0[d][pstates[args[p].pstate]]
              /\ regs0[d][pstates[args[p].pstate]] # st[p].new
        /\ \A c \in cpus : 21 \in regs[c][HWCR].bits
        /\ \E c \in cpus : 21 \notin regs0[c][HWCR].bits

\* C10: of two invocations that edit different fields of one P-State register,
\* run one after the other, both edits end up on every CPU; run at once, an
\* interleaving loses one edit or leaves the CPUs with different values.
BothDone == \A p \in Procs : pc(p) = "done"

\* q read the P-State register after the last write of p to it
Serial(p, q) == st[q].rdpos >= st[p].endpos /\ st[p].endpos > st[p].rdpos

BothEdits(val) == Fid(val) = 152 /\ Did(val) = 10

C10_SerialKeepsBothEdits ==
    \A p, q \in Procs :
        (p # q /\ BothDone /\ Serial(p, q)) =>
            \A c \in cpus : BothEdits(regs[c][pstates[PIdx]])

C10_Witness ==
    /\ BothDone
    /\ \/ \A c \in cpus : ~BothEdits(regs[c][pstates[PIdx]])
       \/ \E c, d \in cpus : regs[c][pstates[PIdx]] # regs[d][pstates[PIdx]]

====
